---- MODULE Spec2Model ----
(***************************************************************************)
(* CVEtracker (src/app.py): the fetch / parse / dedupe / persist pipeline  *)
(* (download_feed, parse_feed, save_to_csv, save_last_updated,             *)
(* run_tracker) and the query of the index route (filter, sort by date or  *)
(* score bucket, paginate).                                                *)
(*                                                                         *)
(* Text is a sequence of one-character strings, so that lower(), slicing,  *)
(* substring search, lexicographic comparison, str() and float() are       *)
(* computed on characters.  A float is its value in tenths (8.9 is 89).    *)
(* A file is NoFile or the sequence of its csv rows.                       *)
(***************************************************************************)
EXTENDS Integers, Sequences, FiniteSets, TLC

VARIABLES
    csvFile,    \* critical_cves.csv (OUTPUT_FILE): NoFile, or its rows
    tsFile,     \* last_updated.txt (TIMESTAMP_FILE): NoFile, or its text
    now,        \* the wall clock datetime.now() reads
    last,       \* the last call: its name, its arguments, what it returned
    procs,      \* concurrent refreshes: each one's position and locals
    overlap     \* history: some save_to_csv call ran while another was open

vars == <<csvFile, tsFile, now, last, procs, overlap>>

----------------------------------------------------------------------------
(* Bounds of the model *)

MaxBatch == 2       \* records in one new_data argument (store specification)
MaxRows == 3        \* data rows a store grows to (store specification)
MaxItems == 1       \* CVE_Items in one feed document
MaxQueryRows == 3   \* data rows a store grows to (tracker and query)
MaxClock == 2       \* readings of the wall clock
MaxPage == 4        \* |page| of an integer page parameter
MaxRaceBatch == 2   \* records in the batch of a concurrent refresh

----------------------------------------------------------------------------
(* Text *)

NoFile == [exists |-> FALSE]

Digits == <<"0", "1", "2", "3", "4", "5", "6", "7", "8", "9">>

Uppers == <<"R", "L", "N", "A", "C", "V", "E", "I", "D", "P", "S">>

Lowers == <<"r", "l", "n", "a", "c", "v", "e", "i", "d", "p", "s">>

\* ord(c) for the characters of the model (ASCII)
Ord(c) ==
    CASE c = " " -> 32 [] c = "-" -> 45 [] c = "." -> 46 [] c = "/" -> 47
      [] c = "0" -> 48 [] c = "1" -> 49 [] c = "2" -> 50 [] c = "3" -> 51
      [] c = "4" -> 52 [] c = "5" -> 53 [] c = "6" -> 54 [] c = "7" -> 55
      [] c = "8" -> 56 [] c = "9" -> 57
      [] c = "A" -> 65 [] c = "C" -> 67 [] c = "D" -> 68 [] c = "E" -> 69
      [] c = "I" -> 73 [] c = "L" -> 76 [] c = "N" -> 78 [] c = "P" -> 80
      [] c = "R" -> 82 [] c = "S" -> 83 [] c = "V" -> 86
      [] c = "a" -> 97 [] c = "b" -> 98 [] c = "c" -> 99 [] c = "d" -> 100
      [] c = "e" -> 101 [] c = "h" -> 104 [] c = "i" -> 105 [] c = "l" -> 108
      [] c = "n" -> 110 [] c = "o" -> 111 [] c = "p" -> 112 [] c = "r" -> 114
      [] c = "s" -> 115 [] c = "t" -> 116 [] c = "u" -> 117 [] c = "v" -> 118
      [] c = "x" -> 120

\* str.lower() on one character
LowerChar(c) ==
    IF \E i \in 1..Len(Uppers) : Uppers[i] = c
    THEN Lowers[CHOOSE i \in 1..Len(Uppers) : Uppers[i] = c]
    ELSE c

\* str.lower()
Lower(s) == [i \in 1..Len(s) |-> LowerChar(s[i])]

\* s[:n]
Prefix(s, n) == SubSeq(s, 1, IF n < Len(s) THEN n ELSE Len(s))

\* q in s
Contains(s, q) ==
    \E i \in 0..(Len(s) - Len(q)) : SubSeq(s, i + 1, i + Len(q)) = q

\* a < b on str: the first differing code point decides, a proper prefix is less
RECURSIVE StrLess(_, _)
StrLess(a, b) ==
    IF b = <<>> THEN FALSE
    ELSE IF a = <<>> THEN TRUE
    ELSE IF a[1] = b[1] THEN StrLess(Tail(a), Tail(b))
    ELSE Ord(a[1]) < Ord(b[1])

IsDigit(c) == \E i \in 1..10 : Digits[i] = c

DigitValue(c) == (CHOOSE i \in 1..10 : Digits[i] = c) - 1

RECURSIVE NatStr(_)
NatStr(n) ==
    IF n < 10 THEN <<Digits[n + 1]>>
    ELSE NatStr(n \div 10) \o <<Digits[(n % 10) + 1]>>

\* str(x) of a float x with one decimal, x given in tenths: 89 is "8.9"
FloatStr(t) ==
    LET a == IF t < 0 THEN -t ELSE t
    IN  (IF t < 0 THEN <<"-">> ELSE <<>>)
          \o NatStr(a \div 10) \o <<".">> \o <<Digits[(a % 10) + 1]>>

RECURSIVE DigitsValue(_)
DigitsValue(s) ==
    IF s = <<>> THEN 0
    ELSE 10 * DigitsValue(SubSeq(s, 1, Len(s) - 1)) + DigitValue(s[Len(s)])

AllDigits(s) == s # <<>> /\ \A i \in 1..Len(s) : IsDigit(s[i])

\* float(s) for s == [-]digits[.digit]: [ok, tenths]; anything else raises
\* ValueError (ok is FALSE)
Float(s) ==
    LET neg == s # <<>> /\ s[1] = "-"
        u == IF neg THEN Tail(s) ELSE s
        dot == IF \E i \in 1..Len(u) : u[i] = "."
               THEN CHOOSE i \in 1..Len(u) : u[i] = "." ELSE 0
        ip == IF dot = 0 THEN u ELSE SubSeq(u, 1, dot - 1)
        fp == IF dot = 0 THEN <<>> ELSE SubSeq(u, dot + 1, Len(u))
        good == AllDigits(ip) /\ (fp = <<>> \/ (Len(fp) = 1 /\ IsDigit(fp[1])))
        mag == 10 * DigitsValue(ip) + (IF fp = <<>> THEN 0 ELSE DigitValue(fp[1]))
    IN  IF good THEN [ok |-> TRUE, tenths |-> IF neg THEN -mag ELSE mag]
        ELSE [ok |-> FALSE, tenths |-> 0]

\* int(s) for s == [-]digits: [ok, value]; anything else raises ValueError
Int10(s) ==
    LET neg == s # <<>> /\ s[1] = "-"
        u == IF neg THEN Tail(s) ELSE s
    IN  IF AllDigits(u)
        THEN [ok |-> TRUE, value |-> IF neg THEN -DigitsValue(u) ELSE DigitsValue(u)]
        ELSE [ok |-> FALSE, value |-> 0]

----------------------------------------------------------------------------
(* The csv file *)

Header ==
    << <<"C", "V", "E", " ", "I", "D">>,
       <<"D", "e", "s", "c", "r", "i", "p", "t", "i", "o", "n">>,
       <<"P", "u", "b", "l", "i", "s", "h", "e", "d", " ", "D", "a", "t", "e">>,
       <<"C", "V", "S", "S", " ", "v", "3", ".", "1", " ", "S", "c", "o", "r", "e">> >>

NA == <<"N", "/", "A">>

\* the score cell parse_feed builds: the float baseScore or the str "N/A"
FloatCell(t) == [isFloat |-> TRUE, tenths |-> t, text |-> <<>>]

StrCell(s) == [isFloat |-> FALSE, tenths |-> 0, text |-> s]

\* csv.writer writes str(cell) for a cell that is not a str
CsvCell(c) == IF c.isFloat THEN FloatStr(c.tenths) ELSE c.text

\* writer.writerow of one record [cve_id, description, published_date, score],
\* read back by csv.reader as four strings
CsvRow(rec) == <<rec[1], rec[2], rec[3], CsvCell(rec[4])>>

Exists(file) == file.exists

Rows(file) == IF file.exists THEN file.rows ELSE <<>>

File(rows) == [exists |-> TRUE, rows |-> rows]

\* next(reader, None); then the remaining rows
SkipHeader(rows) == IF rows = <<>> THEN <<>> ELSE Tail(rows)

SeqRange(s) == {s[i] : i \in 1..Len(s)}

\* the ids (row[0]) of some rows
Ids(rows) == {rows[i][1] : i \in 1..Len(rows)}

\* writer.writerows
CsvRows(recs) == [i \in 1..Len(recs) |-> CsvRow(recs[i])]

\* a plausible bug: the header row is not skipped and the last row is missed
ExistingIdsNoTail(file) ==
    IF Exists(file) /\ Rows(file) # <<>>
    THEN {r[1] : r \in SeqRange(SubSeq(Rows(file), 1, Len(Rows(file)) - 1))}
    ELSE {}

\* save_to_csv, lines 44-52: existing_ids
ExistingIds(file) ==
    IF Exists(file) THEN {r[1] : r \in SeqRange(SkipHeader(Rows(file)))} ELSE {}

\* a plausible bug: nothing is filtered
UniqueDataAll(new_data, existing_ids) == new_data

\* save_to_csv, line 55: unique_data
UniqueData(new_data, existing_ids) ==
    SelectSeq(new_data, LAMBDA row : row[1] \notin existing_ids)

\* a plausible bug: the header is written by every call
WriteHeaderAlways(file) == TRUE

\* save_to_csv, line 58
WriteHeader(file) == ~Exists(file)

\* save_to_csv, lines 59-63: open(filename, 'a') and the rows written
Appended(file, write_header, unique_data) ==
    File(Rows(file)
           \o (IF write_header THEN <<Header>> ELSE <<>>)
           \o CsvRows(unique_data))

\* save_to_csv as one call: the file it leaves and the count it returns
SaveToCsv(new_data, file) ==
    LET existing_ids == ExistingIds(file)
        unique_data == UniqueData(new_data, existing_ids)
    IN  [file |-> Appended(file, WriteHeader(file), unique_data),
         ret |-> Len(unique_data)]

\* load_csv
LoadCsv(file) == IF ~Exists(file) THEN <<>> ELSE SkipHeader(Rows(file))

----------------------------------------------------------------------------
(* Records *)

Date2022 == <<"2", "0", "2", "2", "-", "1", "2", "-", "3", "1">>

Date2023 == <<"2", "0", "2", "3", "-", "0", "6", "-", "0", "1">>

DescRemote == <<"R", "e", "m", "o", "t", "e", " ", "c", "o", "d", "e">>

DescLocal == <<"L", "o", "c", "a", "l", " ", "p", "r", "i", "v">>

Rec(id, desc, date, score) == <<id, desc, date, score>>

\* the records of the store specification: three ids, one of them reported
\* with two different contents
StoreRecords ==
    { Rec(<<"A">>, DescRemote, Date2023, FloatCell(98)),
      Rec(<<"A">>, DescLocal, Date2023, FloatCell(75)),
      Rec(<<"B">>, DescLocal, Date2022, StrCell(NA)),
      Rec(<<"C">>, DescRemote, Date2022, FloatCell(100)) }

SeqsUpTo(S, n) == UNION {[1..k -> S] : k \in 0..n}

Batches == SeqsUpTo(StoreRecords, MaxBatch)

----------------------------------------------------------------------------
(* The store specification: a single writer calls save_to_csv *)

Idle == [op |-> "none"]

InitFiles ==
    /\ csvFile = NoFile
    /\ tsFile = NoFile
    /\ now = 1
    /\ last = Idle
    /\ procs = <<>>
    /\ overlap = FALSE

\* one call save_to_csv(new_data, OUTPUT_FILE)
SaveCall(new_data) ==
    LET r == SaveToCsv(new_data, csvFile)
    IN  /\ Len(LoadCsv(r.file)) <= MaxRows
        /\ csvFile' = r.file
        /\ last' = [op |-> "save_to_csv", new_data |-> new_data, ret |-> r.ret,
                    again |-> last.op = "save_to_csv" /\ last.new_data = new_data]
        /\ UNCHANGED <<tsFile, now, procs, overlap>>

Init == InitFiles

Next == \E new_data \in Batches : SaveCall(new_data)

Spec == Init /\ [][Next]_vars

\* C1: after any sequence of save_to_csv calls by a single writer, starting
\* from a store that does not exist, no two rows load_csv returns have the
\* same CVE id.
C1_NoDuplicateIds ==
    LET rows == LoadCsv(csvFile)
    IN  \A i, j \in 1..Len(rows) : i # j => rows[i][1] # rows[j][1]

\* C2: one save_to_csv call keeps the rows already stored, unchanged and in
\* order, as a prefix of the new store, adds after them exactly the records of
\* the batch whose id was not in the store before the call, in batch order,
\* and returns the number of rows it added.
C2Step ==
    last'.op = "save_to_csv" =>
        LET old == LoadCsv(csvFile)
            novel == SelectSeq(last'.new_data, LAMBDA rec : rec[1] \notin Ids(old))
        IN  /\ LoadCsv(csvFile') = old \o CsvRows(novel)
            /\ last'.ret = Len(novel)
            /\ last'.ret = Len(LoadCsv(csvFile')) - Len(old)

C2_AppendFrame == [][C2Step]_vars

\* a call that found some ids of its batch stored and one not: it returned 1
\* for a batch of two, after rows that were there before
C2_Witness ==
    /\ last.op = "save_to_csv"
    /\ Len(last.new_data) = 2
    /\ last.ret = 1
    /\ Len(LoadCsv(csvFile)) = 3
    /\ last.new_data[1][1] # last.new_data[2][1]

\* C3: save_to_csv is idempotent: called twice in a row with the same batch,
\* the second call leaves the store as the first left it and returns 0.
C3Step ==
    (last'.op = "save_to_csv" /\ last'.again) =>
        (csvFile' = csvFile /\ last'.ret = 0)

C3_Idempotent == [][C3Step]_vars

\* the second of two calls with the same batch of two records has returned
C3_Witness ==
    /\ last.op = "save_to_csv"
    /\ last.again
    /\ Len(last.new_data) = 2
    /\ Ids(CsvRows(last.new_data)) \subseteq Ids(LoadCsv(csvFile))

----------------------------------------------------------------------------
(* The refresh: download_feed, parse_feed, save_to_csv, save_last_updated *)

Raise(e) == [raised |-> TRUE, exc |-> e, value |-> <<>>]

Return(v) == [raised |-> FALSE, exc |-> "", value |-> v]

\* one entry of CVE_Items: nested says that cve.CVE_data_meta.ID,
\* cve.description.description_data[0].value and publishedDate are all there;
\* hasScore that impact.baseMetricV3.cvssV3.baseScore is
Item(id, desc, date, hasScore, tenths) ==
    [nested |-> TRUE, ID |-> id, value |-> desc, publishedDate |-> date,
     hasScore |-> hasScore, baseScore |-> tenths]

MalformedItem ==
    [nested |-> FALSE, ID |-> <<>>, value |-> <<>>, publishedDate |-> <<>>,
     hasScore |-> FALSE, baseScore |-> 0]

\* the decompressed document: not JSON, or a JSON object with or without the
\* CVE_Items key
InvalidDocument == [json |-> FALSE, hasKey |-> FALSE, CVE_Items |-> <<>>]

NoKeyDocument == [json |-> TRUE, hasKey |-> FALSE, CVE_Items |-> <<>>]

Document(items) == [json |-> TRUE, hasKey |-> TRUE, CVE_Items |-> items]

\* the HTTP response of requests.get
Response(status, gzipped, document) ==
    [status_code |-> status, gzipped |-> gzipped, document |-> document]

\* download_feed
DownloadFeed(response) ==
    IF response.status_code # 200 THEN Raise("Failed to download NVD feed")
    ELSE IF ~response.gzipped THEN Raise("BadGzipFile")
    ELSE Return(response.document)

\* parse_feed, lines 36-37: score
Score(item) == IF item.hasScore THEN FloatCell(item.baseScore) ELSE StrCell(NA)

\* parse_feed: json.loads raises on text that is not JSON; data.get("CVE_Items",
\* []) is the empty list when the key is absent; a missing nested field of any
\* entry raises KeyError for the whole batch
ParseFeed(json_data) ==
    IF ~json_data.json THEN Raise("JSONDecodeError")
    ELSE LET items == IF json_data.hasKey THEN json_data.CVE_Items ELSE <<>>
         IN  IF \E i \in 1..Len(items) : ~items[i].nested THEN Raise("KeyError")
             ELSE Return([i \in 1..Len(items) |->
                            Rec(items[i].ID, items[i].value,
                                items[i].publishedDate, Score(items[i]))])

\* Where an I/O call of the refresh fails (OSError), if it does: reading the
\* store (line 48), opening it for append (line 59), writing to it (lines
\* 61-63, after `written` of the lines were flushed), opening the timestamp
\* file (line 79), writing to it (line 80, after open() truncated it).
NoFault == [at |-> "none", written |-> 0]

Fault(at, written) == [at |-> at, written |-> written]

\* a plausible bug: the store is opened with mode 'w', which truncates it
SaveToCsvIOTruncating(new_data, file, fault) ==
    LET unique_data == UniqueData(new_data, ExistingIds(file))
        lines == (IF WriteHeader(file) THEN <<Header>> ELSE <<>>) \o CsvRows(unique_data)
    IN  IF fault.at = "store write" /\ fault.written <= Len(lines)
        THEN [file |-> File(SubSeq(lines, 1, fault.written)), out |-> Raise("OSError")]
        ELSE [file |-> File(lines), out |-> Return(Len(unique_data))]

\* save_to_csv with the I/O fault, if it is one of its own
SaveToCsvIO(new_data, file, fault) ==
    LET existing_ids == ExistingIds(file)
        unique_data == UniqueData(new_data, existing_ids)
        write_header == WriteHeader(file)
        whole == Appended(file, write_header, unique_data)
        k == Len(Rows(file)) + fault.written
    IN  IF fault.at = "store read" /\ Exists(file)
        THEN [file |-> file, out |-> Raise("OSError")]
        ELSE IF fault.at = "store open"
        THEN [file |-> file, out |-> Raise("OSError")]
        ELSE IF fault.at = "store write" /\ k <= Len(Rows(whole))
        THEN [file |-> File(SubSeq(Rows(whole), 1, k)), out |-> Raise("OSError")]
        ELSE [file |-> whole, out |-> Return(Len(unique_data))]

\* datetime.now().strftime('%Y-%m-%d %H:%M:%S'), the clock counting seconds
Strftime(t) ==
    <<"2", "0", "2", "6", "-", "1", "1", "-", "0", "1", " ",
      "1", "0", ":", "0", "0", ":", "0">> \o NatStr(t)

\* save_last_updated with the I/O fault, if it is one of its own
SaveLastUpdated(file, t, fault) ==
    IF fault.at = "timestamp open" THEN [file |-> file, out |-> Raise("OSError")]
    ELSE IF fault.at = "timestamp write"
    THEN [file |-> File(<<>>), out |-> Raise("OSError")]
    ELSE [file |-> File(Strftime(t)), out |-> Return(0)]

\* load_last_updated; strip() has nothing to strip from what strftime wrote
LoadLastUpdated(file) ==
    IF Exists(file) THEN Rows(file) ELSE <<"N", "e", "v", "e", "r">>

\* run_tracker: the files it leaves, the message it returns, and the stage
\* whose exception the except clause caught ("" when none)
RunTracker(response, fault, csv, ts, t) ==
    LET raw == DownloadFeed(response)
        results == ParseFeed(raw.value)
        saved == SaveToCsvIO(results.value, csv, fault)
        stamped == SaveLastUpdated(ts, t, fault)
    IN  IF raw.raised
        THEN [csv |-> csv, ts |-> ts, ok |-> FALSE, text |-> raw.exc,
              new_count |-> 0, stage |-> "download"]
        ELSE IF results.raised
        THEN [csv |-> csv, ts |-> ts, ok |-> FALSE, text |-> results.exc,
              new_count |-> 0, stage |-> "parse"]
        ELSE IF saved.out.raised
        THEN [csv |-> saved.file, ts |-> ts, ok |-> FALSE, text |-> saved.out.exc,
              new_count |-> 0, stage |-> "store append"]
        ELSE IF stamped.out.raised
        THEN [csv |-> saved.file, ts |-> stamped.file, ok |-> FALSE,
              text |-> stamped.out.exc, new_count |-> 0,
              stage |-> "timestamp write"]
        ELSE [csv |-> saved.file, ts |-> stamped.file, ok |-> TRUE,
              text |-> "new CVEs added.", new_count |-> saved.out.value,
              stage |-> ""]

\* what the feed served, for the record of the call
Served(response) ==
    IF response.status_code # 200 \/ ~response.gzipped THEN "nothing"
    ELSE IF ~response.document.json THEN "not JSON"
    ELSE IF ~response.document.hasKey THEN "no CVE_Items key"
    ELSE IF response.document.CVE_Items = <<>> THEN "empty CVE_Items"
    ELSE "CVE_Items"

\* GET /refresh: one run_tracker call
Refresh(response, fault) ==
    LET r == RunTracker(response, fault, csvFile, tsFile, now)
    IN  /\ Len(LoadCsv(r.csv)) <= MaxQueryRows
        /\ csvFile' = r.csv
        /\ tsFile' = r.ts
        /\ last' = [op |-> "run_tracker", served |-> Served(response),
                    fault |-> fault.at, ok |-> r.ok, text |-> r.text,
                    new_count |-> r.new_count, stage |-> r.stage]
        /\ UNCHANGED <<now, procs, overlap>>

\* the wall clock advances
Tick ==
    /\ now < MaxClock
    /\ now' = now + 1
    /\ UNCHANGED <<csvFile, tsFile, last, procs, overlap>>

TrackerItems ==
    { Item(<<"A">>, DescRemote, Date2023, TRUE, 98),
      Item(<<"B">>, DescLocal, Date2022, FALSE, 0),
      MalformedItem }

TrackerResponses ==
    { Response(500, TRUE, InvalidDocument),
      Response(200, FALSE, InvalidDocument),
      Response(200, TRUE, InvalidDocument),
      Response(200, TRUE, NoKeyDocument) }
    \cup {Response(200, TRUE, Document(items)) :
            items \in SeqsUpTo(TrackerItems, MaxItems)}

Faults ==
    { Fault("store read", 0), Fault("store open", 0),
      Fault("timestamp open", 0), Fault("timestamp write", 0) }
    \cup {Fault("store write", k) : k \in 0..(MaxItems + 1)}

\* a refresh whose I/O all succeeds, and a refresh that meets an I/O fault
NextTracker ==
    \/ \E response \in TrackerResponses : Refresh(response, NoFault)
    \/ \E response \in TrackerResponses, fault \in Faults :
          /\ RunTracker(response, NoFault, csvFile, tsFile, now).ok
          /\ ~RunTracker(response, fault, csvFile, tsFile, now).ok
          /\ Refresh(response, fault)
    \/ Tick

SpecTracker == Init /\ [][NextTracker]_vars

IsPrefix(a, b) == Len(a) <= Len(b) /\ SubSeq(b, 1, Len(a)) = a

\* C4 as stated: whenever run_tracker fails, at any stage, it returns a failure
\* message and both the store and the timestamp are exactly what they were
\* before the call.
C4StepAsStated ==
    (last'.op = "run_tracker" /\ ~last'.ok) =>
        (csvFile' = csvFile /\ tsFile' = tsFile)

C4_FailureLeavesAllState == [][C4StepAsStated]_vars

\* C4, amended: run_tracker returns a failure message for a failure at any
\* stage; a failure at download or parse leaves the store and the timestamp
\* exactly as they were; a failure at the store append or the timestamp write
\* rolls nothing back: the store file keeps its previous content as a prefix,
\* followed by what was written before the failure; a failed store append
\* leaves the timestamp as it was, and a failed timestamp write leaves the
\* timestamp file as it was or empty.
C4Step ==
    (last'.op = "run_tracker" /\ ~last'.ok) =>
        /\ last'.stage \in {"download", "parse", "store append", "timestamp write"}
        /\ last'.text # ""
        /\ last'.stage \in {"download", "parse"} =>
               (csvFile' = csvFile /\ tsFile' = tsFile)
        /\ last'.stage = "store append" =>
               (IsPrefix(Rows(csvFile), Rows(csvFile')) /\ tsFile' = tsFile)
        /\ last'.stage = "timestamp write" =>
               /\ IsPrefix(Rows(csvFile), Rows(csvFile'))
               /\ tsFile' \in {tsFile, File(<<>>)}

C4_FailureNoRollback == [][C4Step]_vars

\* a refresh that failed at the timestamp write: the store has its row and
\* the timestamp still reads Never
C4_Witness ==
    /\ last.op = "run_tracker"
    /\ ~last.ok
    /\ last.stage = "timestamp write"
    /\ Len(LoadCsv(csvFile)) = 1
    /\ ~Exists(tsFile)

\* C8: parse_feed fails with a parse error on a document that has no top-level
\* CVE list key, and parses a present, empty list to no records; so a refresh
\* on a document without the key reports failure and leaves the timestamp.
C8Step ==
    (last'.op = "run_tracker" /\ last'.fault = "none") =>
        /\ last'.served = "no CVE_Items key" =>
               (~last'.ok /\ last'.stage = "parse" /\ tsFile' = tsFile)
        /\ last'.served = "empty CVE_Items" =>
               (last'.ok /\ last'.new_count = 0)

C8_MissingKeyFails == [][C8Step]_vars

----------------------------------------------------------------------------
(* The query of the index route *)

PerPage == 100

\* a query parameter of the request: absent, or its text
NoArg == [given |-> FALSE, text |-> <<>>]

Arg(text) == [given |-> TRUE, text |-> text]

\* request.args.get(name, default)
ArgGet(arg, default) == IF arg.given THEN arg.text ELSE default

\* int(request.args.get('page', 1)): the default is the int 1
PageOf(arg) == IF arg.given THEN Int10(arg.text) ELSE [ok |-> TRUE, value |-> 1]

SortScore == <<"s", "c", "o", "r", "e">>

SortDate == <<"d", "a", "t", "e">>

OrderDesc == <<"d", "e", "s", "c">>

OrderAsc == <<"a", "s", "c">>

\* index, lines 117-118
FilterQuery(all_cves, query) ==
    IF query # <<>>
    THEN SelectSeq(all_cves, LAMBDA row : Contains(Lower(row[2]), query))
    ELSE all_cves

\* index, lines 120-121
FilterYear(all_cves, year_filter) ==
    IF year_filter # <<>>
    THEN SelectSeq(all_cves, LAMBDA row : Prefix(row[3], 4) = year_filter)
    ELSE all_cves

\* what get_score_bucket returns: an int, or None
Bucket(n) == [none |-> FALSE, value |-> n]

None == [none |-> TRUE, value |-> 0]

\* a plausible bug: the upper bounds are exclusive
GetScoreBucketExclusive(score) ==
    LET f == Float(score)
        s == f.tenths
    IN  IF ~f.ok THEN Bucket(9)
        ELSE IF s < 20 THEN Bucket(0)
        ELSE IF s < 30 THEN Bucket(1)
        ELSE IF s < 40 THEN Bucket(2)
        ELSE IF s < 50 THEN Bucket(3)
        ELSE IF s < 60 THEN Bucket(4)
        ELSE IF s < 70 THEN Bucket(5)
        ELSE IF s < 80 THEN Bucket(6)
        ELSE IF s < 90 THEN Bucket(7)
        ELSE IF s < 100 THEN Bucket(8)
        ELSE None

\* get_score_bucket, lines 123-136: float(score) raising is caught and gives 9;
\* a float above 10 matches no branch and the function returns None
GetScoreBucket(score) ==
    LET f == Float(score)
        s == f.tenths
    IN  IF ~f.ok THEN Bucket(9)
        ELSE IF s <= 20 THEN Bucket(0)
        ELSE IF s <= 30 THEN Bucket(1)
        ELSE IF s <= 40 THEN Bucket(2)
        ELSE IF s <= 50 THEN Bucket(3)
        ELSE IF s <= 60 THEN Bucket(4)
        ELSE IF s <= 70 THEN Bucket(5)
        ELSE IF s <= 80 THEN Bucket(6)
        ELSE IF s <= 90 THEN Bucket(7)
        ELSE IF s <= 100 THEN Bucket(8)
        ELSE None

\* the sort key of a row, lines 139 and 141
SortKey(row, sort_by) ==
    IF sort_by = SortScore THEN GetScoreBucket(row[4]) ELSE row[3]

\* key a < key b: ints for the score sort, str for the date sort
KeyLess(a, b, sort_by) ==
    IF sort_by = SortScore THEN a.value < b.value ELSE StrLess(a, b)

Reverse(s) == [i \in 1..Len(s) |-> s[Len(s) + 1 - i]]

\* the stable merge of two sorted runs: of two rows neither of which is less,
\* the one of the left run goes first; runs already in order are concatenated
RECURSIVE Merge(_, _, _)
Merge(left, right, sort_by) ==
    IF left = <<>> THEN right
    ELSE IF right = <<>> THEN left
    ELSE IF ~KeyLess(SortKey(right[1], sort_by),
                     SortKey(left[Len(left)], sort_by), sort_by)
    THEN left \o right
    ELSE IF KeyLess(SortKey(right[1], sort_by), SortKey(left[1], sort_by), sort_by)
    THEN <<right[1]>> \o Merge(left, Tail(right), sort_by)
    ELSE <<left[1]>> \o Merge(Tail(left), right, sort_by)

\* the stable merge sort of list[lo..hi]
RECURSIVE MergeSort(_, _, _, _)
MergeSort(list, lo, hi, sort_by) ==
    IF lo > hi THEN <<>>
    ELSE IF lo = hi THEN <<list[lo]>>
    ELSE LET mid == (lo + hi) \div 2
         IN  Merge(MergeSort(list, lo, mid, sort_by),
                   MergeSort(list, mid + 1, hi, sort_by), sort_by)

\* list.sort(key=..., reverse=...): a stable merge sort on the keys; with
\* reverse the list is reversed, sorted and reversed again, which keeps the
\* rows of equal key in their order
Sorted(all_cves, sort_by, reverse) ==
    IF reverse
    THEN Reverse(MergeSort(Reverse(all_cves), 1, Len(all_cves), sort_by))
    ELSE MergeSort(all_cves, 1, Len(all_cves), sort_by)

\* list.sort compares every key of a list of two or more rows at least once,
\* and None < int (or None < None) raises TypeError
SortRaises(all_cves, sort_by) ==
    /\ sort_by = SortScore
    /\ Len(all_cves) >= 2
    /\ \E i \in 1..Len(all_cves) : GetScoreBucket(all_cves[i][4]).none

\* s[start:stop] of a list
Slice(s, start, stop) ==
    LET clip(i) == IF i < 0 THEN (IF i + Len(s) < 0 THEN 0 ELSE i + Len(s))
                   ELSE IF i > Len(s) THEN Len(s) ELSE i
    IN  SubSeq(s, clip(start) + 1, clip(stop))

\* index, lines 144-145
PageSlice(all_cves, page) ==
    LET start == (page - 1) * PerPage
    IN  Slice(all_cves, start, start + PerPage)

\* index, line 146
TotalPages(total) == (total + PerPage - 1) \div PerPage

\* the index view function: what it renders, or the exception it raises
IndexView(q, year, page_arg, sort, order, csv, ts) ==
    LET query == Lower(ArgGet(q, <<>>))
        year_filter == ArgGet(year, <<>>)
        page == PageOf(page_arg)
        sort_by == ArgGet(sort, SortDate)
        sort_order == ArgGet(order, OrderDesc)
        filtered == FilterYear(FilterQuery(LoadCsv(csv), query), year_filter)
        buckets == IF sort_by = SortScore
                   THEN [i \in 1..Len(filtered) |-> GetScoreBucket(filtered[i][4])]
                   ELSE <<>>
        all_cves == Sorted(filtered, sort_by, sort_order = OrderDesc)
        shown == [query |-> query, year_filter |-> year_filter,
                  sort_by |-> sort_by, sort_order |-> sort_order]
    IN  IF ~page.ok
        THEN [status |-> 500, exc |-> "ValueError", shown |-> shown, page |-> 0,
              filtered |-> <<>>, buckets |-> <<>>, cves |-> <<>>,
              total_pages |-> 0, last_updated |-> <<>>]
        ELSE IF SortRaises(filtered, sort_by)
        THEN [status |-> 500, exc |-> "TypeError", shown |-> shown,
              page |-> page.value, filtered |-> filtered, buckets |-> buckets,
              cves |-> <<>>, total_pages |-> 0, last_updated |-> <<>>]
        ELSE [status |-> 200, exc |-> "", shown |-> shown, page |-> page.value,
              filtered |-> filtered, buckets |-> buckets,
              cves |-> PageSlice(all_cves, page.value),
              total_pages |-> TotalPages(Len(all_cves)),
              last_updated |-> LoadLastUpdated(ts)]

\* GET /
Index(q, year, page_arg, sort, order) ==
    /\ last' = [op |-> "index", page_arg |-> page_arg,
                view |-> IndexView(q, year, page_arg, sort, order, csvFile, tsFile)]
    /\ UNCHANGED <<csvFile, tsFile, now, procs, overlap>>

\* the feed of the query specification: scores 8.9, 9.0 and 8.0, an entry
\* without a score, and a score above 10
QueryItems ==
    { Item(<<"A">>, DescRemote, Date2023, TRUE, 89),
      Item(<<"B">>, DescLocal, Date2022, TRUE, 90),
      Item(<<"C">>, DescRemote, Date2023, FALSE, 0),
      Item(<<"D">>, DescLocal, Date2022, TRUE, 105),
      Item(<<"E">>, DescRemote, Date2022, TRUE, 80) }

QueryResponses ==
    {Response(200, TRUE, Document(items)) : items \in SeqsUpTo(QueryItems, MaxItems)}

QArgs == {NoArg, Arg(<<"R", "e", "m", "o", "t", "e">>)}

YearArgs == {NoArg, Arg(<<"2", "0", "2", "3">>)}

SortArgs == {NoArg, Arg(SortScore)}

OrderArgs == {NoArg, Arg(OrderAsc)}

NextQuery ==
    \/ \E response \in QueryResponses : Refresh(response, NoFault)
    \/ \E q \in QArgs, year \in YearArgs, sort \in SortArgs, order \in OrderArgs :
          Index(q, year, NoArg, sort, order)

SpecQuery == Init /\ [][NextQuery]_vars

ScoreSorted == last.op = "index" /\ last.view.shown.sort_by = SortScore

Text89 == <<"8", ".", "9">>

Text90 == <<"9", ".", "0">>

Text80 == <<"8", ".", "0">>

\* C6 as stated: the upper bounds of the ranges are inclusive: 8.9 maps to
\* bucket 6, exactly 9.0 to bucket 7, and an unparseable score (N/A) to 9.
C6_BucketsAsStated ==
    ScoreSorted =>
        \A i \in 1..Len(last.view.filtered) :
            LET score == last.view.filtered[i][4]
                bucket == last.view.buckets[i]
            IN  /\ score = Text89 => bucket = Bucket(6)
                /\ score = Text90 => bucket = Bucket(7)
                /\ score = NA => bucket = Bucket(9)

\* C6, amended: the upper bounds of the ranges are inclusive: 8.9 maps to
\* bucket 7 (the range above 8 up to 9; 8.0 is the last score of bucket 6),
\* exactly 9.0 to bucket 7, and an unparseable score (N/A) to 9.
C6_InclusiveBounds ==
    ScoreSorted =>
        \A i \in 1..Len(last.view.filtered) :
            LET score == last.view.filtered[i][4]
                bucket == last.view.buckets[i]
            IN  /\ score = Text89 => bucket = Bucket(7)
                /\ score = Text90 => bucket = Bucket(7)
                /\ score = Text80 => bucket = Bucket(6)
                /\ score = NA => bucket = Bucket(9)

\* a score sort over rows with the scores 8.9, 9.0 and N/A
C6_Witness ==
    /\ ScoreSorted
    /\ Len(last.view.filtered) = 3
    /\ {Text89, Text90, NA} =
           {last.view.filtered[i][4] : i \in 1..Len(last.view.filtered)}

\* rows is list ordered by bucket, ascending or descending, the rows of equal
\* bucket in the order they have in list
StableByBucket(rows, list, buckets, desc) ==
    \E p \in [1..Len(list) -> 1..Len(list)] :
        /\ \A k, l \in 1..Len(list) : k # l => p[k] # p[l]
        /\ rows = [k \in 1..Len(list) |-> list[p[k]]]
        /\ \A k, l \in 1..Len(list) :
               k < l =>
                   \/ (~desc /\ buckets[p[k]].value < buckets[p[l]].value)
                   \/ (desc /\ buckets[p[k]].value > buckets[p[l]].value)
                   \/ (buckets[p[k]].value = buckets[p[l]].value /\ p[k] < p[l])

\* C7: with the sort key score the result is the filtered records ordered by
\* bucket value, compared as numbers, unknown scores being bucket 9 like any
\* other bucket, and records of equal bucket keep their store order, ascending
\* and descending alike.
C7_SortByScore ==
    (ScoreSorted /\ ~last.page_arg.given) =>
        /\ last.view.status = 200
        /\ StableByBucket(last.view.cves, last.view.filtered, last.view.buckets,
                          last.view.shown.sort_order = OrderDesc)

\* every score sort that completes is ordered by bucket and keeps the store
\* order of the rows of equal bucket
ScoreSortStableWhenItCompletes ==
    (ScoreSorted /\ ~last.page_arg.given /\ last.view.status = 200) =>
        StableByBucket(last.view.cves, last.view.filtered, last.view.buckets,
                       last.view.shown.sort_order = OrderDesc)

\* a descending score sort that completed over three rows, two of one bucket
ScoreSortStableWitness ==
    /\ ScoreSorted
    /\ last.view.status = 200
    /\ last.view.shown.sort_order = OrderDesc
    /\ Len(last.view.cves) = 3
    /\ \E i, j \in 1..3 : i # j /\ last.view.buckets[i] = last.view.buckets[j]

\* C10: for every score parse_feed can persist, numbers above 10 or below 0
\* and N/A included, get_score_bucket returns an integer in 0..9, so a sort by
\* score completes without error for every reachable store.
C10_BucketIsInt ==
    ScoreSorted =>
        /\ \A i \in 1..Len(last.view.buckets) :
               /\ ~last.view.buckets[i].none
               /\ last.view.buckets[i].value \in 0..9
        /\ last.view.exc # "TypeError"

----------------------------------------------------------------------------
(* Pagination: stores of up to three pages *)

PageTotals == {0, 1, 100, 101, 150, 250}

PageRow(i) == <<<<"C", "V", "E", "-">> \o NatStr(i), DescRemote, Date2023, <<"9", ".", "8">>>>

PageStore(n) == File(<<Header>> \o [i \in 1..n |-> PageRow(i)])

\* a page parameter: absent, not a number, or an integer
PageArgs ==
    {NoArg, Arg(<<"a", "b", "c">>), Arg(<<>>)}
    \cup {Arg(NatStr(n)) : n \in 0..MaxPage}
    \cup {Arg(<<"-">> \o NatStr(n)) : n \in 1..MaxPage}

InitPage ==
    /\ csvFile \in {PageStore(n) : n \in PageTotals}
    /\ tsFile = NoFile
    /\ now = 1
    /\ last = Idle
    /\ procs = <<>>
    /\ overlap = FALSE

NextPage ==
    \E page_arg \in PageArgs, order \in OrderArgs, q \in QArgs :
        Index(q, NoArg, page_arg, NoArg, order)

SpecPage == InitPage /\ [][NextPage]_vars

\* C5: the index query completes without raising for every value of the page
\* parameter, text that is no number included, and for every integer page
\* outside 1..total_pages the page slice is empty.
C5_AnyPageCompletes ==
    last.op = "index" =>
        /\ last.view.status = 200
        /\ last.view.page \notin 1..last.view.total_pages => last.view.cves = <<>>

\* the second half of C5 alone: where the page parameter is an integer
\* outside 1..total_pages, the page slice is empty
OutOfRangePageIsEmpty ==
    (last.op = "index" /\ last.view.status = 200) =>
        (last.view.page \notin 1..last.view.total_pages => last.view.cves = <<>>)

\* what holds of the slice: it is empty for every page above total_pages and
\* for page 0, and for a negative page whenever there is at most one page
PageBeyondLastIsEmpty ==
    (last.op = "index" /\ last.view.status = 200) =>
        /\ last.view.page > last.view.total_pages => last.view.cves = <<>>
        /\ last.view.page = 0 => last.view.cves = <<>>
        /\ (last.view.page < 0 /\ last.view.total_pages <= 1) => last.view.cves = <<>>

----------------------------------------------------------------------------
(* Two refreshes in save_to_csv at once, as under a threaded server *)

Refreshes == {1, 2}

RaceRecords ==
    { Rec(<<"A">>, DescRemote, Date2023, FloatCell(98)),
      Rec(<<"B">>, DescLocal, Date2022, StrCell(NA)),
      Rec(<<"C">>, DescRemote, Date2022, FloatCell(100)) }

\* the batches of a feed that reports every id once
RaceBatches ==
    {b \in SeqsUpTo(RaceRecords, MaxRaceBatch) :
        \A i, j \in 1..Len(b) : i # j => b[i][1] # b[j][1]}

Called(new_data) ==
    [pc |-> "read", new_data |-> new_data, existing_ids |-> {},
     unique_data |-> <<>>, write_header |-> FALSE, ret |-> 0]

InitRace ==
    /\ csvFile \in {NoFile, File(<<Header, CsvRow(Rec(<<"A">>, DescRemote, Date2023, FloatCell(98)))>>)}
    /\ tsFile = NoFile
    /\ now = 1
    /\ last = Idle
    /\ procs \in [Refreshes -> {Called(b) : b \in RaceBatches}]
    /\ overlap = FALSE

\* between its read of the store and its return
InCall(p) == procs[p].pc \in {"check", "open", "write"}

\* lines 44-55: existing_ids is read from the store, unique_data is filtered
ReadIds(p) ==
    /\ procs[p].pc = "read"
    /\ procs' = [procs EXCEPT
                   ![p].pc = "check",
                   ![p].existing_ids = ExistingIds(csvFile),
                   ![p].unique_data = UniqueData(procs[p].new_data, ExistingIds(csvFile))]
    /\ overlap' = (overlap \/ \E o \in Refreshes \ {p} : InCall(o))
    /\ UNCHANGED <<csvFile, tsFile, now, last>>

\* line 58: write_header
CheckHeader(p) ==
    /\ procs[p].pc = "check"
    /\ procs' = [procs EXCEPT ![p].pc = "open",
                              ![p].write_header = WriteHeader(csvFile)]
    /\ UNCHANGED <<csvFile, tsFile, now, last, overlap>>

\* line 59: open(filename, mode='a') creates the file when it is not there
OpenAppend(p) ==
    /\ procs[p].pc = "open"
    /\ csvFile' = File(Rows(csvFile))
    /\ procs' = [procs EXCEPT ![p].pc = "write"]
    /\ UNCHANGED <<tsFile, now, last, overlap>>

\* lines 60-65: the header and the rows are buffered and appended to the file
\* when it is closed; the call returns
WriteRows(p) ==
    /\ procs[p].pc = "write"
    /\ csvFile' = Appended(csvFile, procs[p].write_header, procs[p].unique_data)
    /\ procs' = [procs EXCEPT ![p].pc = "done",
                              ![p].ret = Len(procs[p].unique_data)]
    /\ UNCHANGED <<tsFile, now, last, overlap>>

NextRace ==
    \E p \in Refreshes :
        \/ ReadIds(p)
        \/ CheckHeader(p)
        \/ OpenAppend(p)
        \/ WriteRows(p)

SpecRace == InitRace /\ [][NextRace]_vars

AllReturned == \A p \in Refreshes : procs[p].pc = "done"

\* two rows load_csv returns have the same id
DuplicatedId ==
    LET rows == LoadCsv(csvFile)
    IN  \E i, j \in 1..Len(rows) : i # j /\ rows[i][1] = rows[j][1]

\* a header row is among the rows load_csv returns
HeaderInData == Header \in SeqRange(LoadCsv(csvFile))

\* a row some call wrote, and counted, is not among the rows load_csv returns
DroppedRow ==
    \E p \in Refreshes :
        \E i \in 1..Len(procs[p].unique_data) :
            CsvRow(procs[p].unique_data[i]) \notin SeqRange(LoadCsv(csvFile))

\* C9: the read of the existing ids and the append of save_to_csv are not one
\* atomic step: two refreshes whose calls overlap can leave a store that has
\* dropped a row or holds duplicated rows (an id twice, a header row in the
\* data), and calls that do not overlap never do.
C9_RaceNeedsOverlap ==
    (AllReturned /\ (DuplicatedId \/ HeaderInData \/ DroppedRow)) => overlap

\* both calls returned and the store holds an id twice
C9_Witness == AllReturned /\ overlap /\ DuplicatedId

\* both calls returned and the store holds a second header row
RaceHeaderWitness == AllReturned /\ overlap /\ HeaderInData

\* both calls returned and a row one of them wrote is lost to load_csv
RaceDroppedWitness == AllReturned /\ overlap /\ DroppedRow

====
